---------------------------- MODULE Spec2Model ----------------------------
(***************************************************************************)
(* A model of autosub (src/autosub/__init__.py): the energy-based speech   *)
(* region detector (percentile, find_speech_regions), the speech           *)
(* recognizer's retry/scan loop (SpeechRecognizer.__call__) and the        *)
(* two-stage worker-pool pipeline (generate_subtitles, main).              *)
(*                                                                         *)
(* Three specifications share the variables:                               *)
(*   SpecDetect      one call of find_speech_regions, a frame per step     *)
(*   SpecRecognizer  one call of SpeechRecognizer.__call__, a request per  *)
(*                   step                                                  *)
(*   Spec            main() and generate_subtitles() with the worker pool  *)
(*                                                                         *)
(* Time is counted in integer ticks; chunk_duration, min_region_size and   *)
(* max_region_size are given in ticks.  The threshold is a rational with   *)
(* denominator PercentDen and is stored multiplied by PercentDen.          *)
(***************************************************************************)
EXTENDS Integers, Sequences, FiniteSets, TLC

VARIABLES
    \* ---- find_speech_regions ----
    energies,          \* list of per-chunk RMS energies (line 180-184)
    chunk_duration,    \* float(frame_width) / rate (line 177), in ticks
    min_region_size,   \* parameter (line 172), in ticks
    max_region_size,   \* parameter (line 172), in ticks
    threshold,         \* percentile(energies, 0.2) * PercentDen (line 186)
    elapsed_time,      \* line 188
    regions,           \* line 190; also generate_subtitles' regions (line 256)
    region_start,      \* line 191
    frame,             \* position of the for loop of line 193 (1-based)
    d_pc,              \* "start" | "sweep" | "done" | "raised" ("idle": not called)
    \* ---- SpeechRecognizer.__call__ ----
    retries,           \* self.retries (line 89)
    i,                 \* loop variable of line 93
    posts,             \* the outcome of each request made so far (its kind)
    resp,              \* the lines of the last response received (line 102)
    r_pc,              \* "loop" | "returned" | "raised" ("idle": not called)
    r_result,          \* what __call__ returned or raised
    \* ---- generate_subtitles / main ----
    pc,                \* position of the orchestrating process
    exit_code,         \* the process's exit status (None while running)
    raised,            \* the last exception raised in the orchestrating process
                       \* ("none" so far); kept once main has caught it
    audio_file,        \* does the temporary PCM file exist (line 159, 302)
    dest_file,         \* content of the destination path
    concurrency,       \* pool size (line 258)
    pool,              \* "none" | "running" | "terminated" | "joined"
    stage,             \* "none" | "extract" | "recognize"
    queued,            \* number of items of the current imap taken by workers
    running,           \* indices a worker is processing
    finished,          \* index -> result, completed by a worker, not yet yielded
    extracted_regions, \* line 269
    transcripts        \* line 263

\* the detector's variables other than regions
dstate == <<energies, chunk_duration, min_region_size, max_region_size,
            threshold, elapsed_time, region_start, frame, d_pc>>
dvars == <<energies, chunk_duration, min_region_size, max_region_size,
           threshold, elapsed_time, regions, region_start, frame, d_pc>>
rvars == <<retries, i, posts, resp, r_pc, r_result>>
pvars == <<pc, exit_code, raised, audio_file, dest_file, concurrency, pool,
           stage, queued, running, finished, extracted_regions, transcripts>>
vars == <<dvars, rvars, pvars>>

(***************************************************************************)
(* Bounds of the model.                                                    *)
(***************************************************************************)
MaxFrames == 6
MaxEnergy == 2

(***************************************************************************)
(* Python values.                                                          *)
(***************************************************************************)
\* region_start = None (line 191).  Times are >= 0, so -1 is free to stand
\* for None.
None == -1

\* Python truthiness of a value that is None or a number: None and 0 are
\* falsy (lines 195, 197, 202 test region_start itself, not "is not None").
Truthy(x) == x # None /\ x # 0

(***************************************************************************)
(* percentile (lines 46-54), called with percent = 0.2 = 1/5 (line 186).   *)
(***************************************************************************)
PercentNum == 1
PercentDen == 5

RECURSIVE Insert(_, _)
Insert(x, s) ==
    IF s = <<>> THEN <<x>>
    ELSE IF x <= Head(s) THEN <<x>> \o s
    ELSE <<Head(s)>> \o Insert(x, Tail(s))

\* Sorted without the sort
Unsorted(s) == s

\* sorted(arr), line 47
RECURSIVE Sorted(_)
Sorted(s) == IF s = <<>> THEN <<>> ELSE Insert(Head(s), Sorted(Tail(s)))

\* arr[int(j)] of a Python list: 0-based, a negative index counts from the
\* end, anything outside raises IndexError.
IndexError == -2
PyIndex(arr, j) ==
    LET n == Len(arr)
        jj == IF j < 0 THEN j + n ELSE j
    IN  IF jj < 0 \/ jj >= n THEN IndexError ELSE arr[jj + 1]

\* math.floor(k) and math.ceil(k) for k = num / PercentDen
Floor(num) == IF num >= 0 THEN num \div PercentDen
              ELSE -((-num + PercentDen - 1) \div PercentDen)
Ceil(num) == IF num >= 0 THEN (num + PercentDen - 1) \div PercentDen
             ELSE -((-num) \div PercentDen)

\* The result multiplied by PercentDen, or IndexError.
Percentile(arr) ==
    LET s    == Sorted(arr)
        knum == (Len(s) - 1) * PercentNum       \* k = knum / PercentDen
        f    == Floor(knum)
        c    == Ceil(knum)
    IN  IF f = c
        THEN (IF PyIndex(s, f) = IndexError THEN IndexError
              ELSE PercentDen * PyIndex(s, f))
        ELSE IF PyIndex(s, f) = IndexError \/ PyIndex(s, c) = IndexError
             THEN IndexError
             ELSE PyIndex(s, f) * (c * PercentDen - knum)
                  + PyIndex(s, c) * (knum - f * PercentDen)

(***************************************************************************)
(* find_speech_regions (lines 172-205).                                    *)
(***************************************************************************)
\* (chunk_duration, min_region_size, max_region_size) in ticks.  The source's
\* defaults are 0.256 s (4096 / 16000), 0.5 s and 6 s: a chunk that does not
\* divide max_region_size, and a min_region_size of about two chunks.
DetectorParams == { <<1, 2, 3>>, <<2, 2, 3>>, <<2, 3, 4>> }

RECURSIVE SeqsUpTo(_, _)
SeqsUpTo(S, n) ==
    IF n = 0 THEN { <<>> }
    ELSE LET shorter == SeqsUpTo(S, n - 1)
         IN  shorter \cup { Append(s, x) : s \in { t \in shorter : Len(t) = n - 1 }, x \in S }

\* line 194
IsSilence(energy, thr) == PercentDen * energy <= thr

\* MaxExceeded with > for >=
MaxExceededStrict(rs, et, maxsize) == Truthy(rs) /\ et - rs > maxsize

\* line 195: region_start and elapsed_time - region_start >= max_region_size
MaxExceeded(rs, et, maxsize) == Truthy(rs) /\ et - rs >= maxsize

\* line 198
LongEnough(rs, et, minsize) == et - rs >= minsize

\* CloseBranch without "and region_start"
CloseBranchAnyStart(rs, et, energy, thr, maxsize) ==
    MaxExceeded(rs, et, maxsize) \/ IsSilence(energy, thr)

\* line 197: (max_exceeded or is_silence) and region_start
CloseBranch(rs, et, energy, thr, maxsize) ==
    (MaxExceeded(rs, et, maxsize) \/ IsSilence(energy, thr)) /\ Truthy(rs)

\* line 202: (not region_start) and (not is_silence)
OpenBranch(rs, energy, thr) == ~Truthy(rs) /\ ~IsSilence(energy, thr)

\* The detector's variables while another specification runs (regions is
\* shared with generate_subtitles and set by its specification).
DetectIdle ==
    /\ energies = <<>> /\ chunk_duration = 1 /\ min_region_size = 1
    /\ max_region_size = 1 /\ threshold = 0 /\ elapsed_time = 0
    /\ region_start = None /\ frame = 1 /\ d_pc = "idle"

InitDetect ==
    /\ energies \in SeqsUpTo(0..MaxEnergy, MaxFrames)
    /\ \E p \in DetectorParams :
          /\ chunk_duration = p[1]
          /\ min_region_size = p[2]
          /\ max_region_size = p[3]
    /\ threshold = 0
    /\ elapsed_time = 0
    /\ regions = <<>>
    /\ region_start = None
    /\ frame = 1
    /\ d_pc = "start"

\* lines 186-191: the threshold, or the IndexError percentile raises
ComputeThreshold ==
    /\ d_pc = "start"
    /\ IF Percentile(energies) = IndexError
       THEN /\ d_pc' = "raised"
            /\ UNCHANGED <<threshold, elapsed_time, regions, region_start>>
       ELSE /\ threshold' = Percentile(energies)
            /\ elapsed_time' = 0
            /\ regions' = <<>>
            /\ region_start' = None
            /\ d_pc' = "sweep"
    /\ UNCHANGED <<energies, chunk_duration, min_region_size, max_region_size, frame>>
    /\ UNCHANGED <<rvars, pvars>>

\* lines 193-204: one iteration of the for loop
SweepFrame ==
    /\ d_pc = "sweep"
    /\ frame <= Len(energies)
    /\ LET energy == energies[frame] IN
       IF CloseBranch(region_start, elapsed_time, energy, threshold, max_region_size)
       THEN IF LongEnough(region_start, elapsed_time, min_region_size)
            THEN /\ regions' = Append(regions, <<region_start, elapsed_time>>)
                 /\ region_start' = None
            ELSE UNCHANGED <<regions, region_start>>
       ELSE IF OpenBranch(region_start, energy, threshold)
            THEN /\ region_start' = elapsed_time
                 /\ UNCHANGED regions
            ELSE UNCHANGED <<regions, region_start>>
    /\ elapsed_time' = elapsed_time + chunk_duration
    /\ frame' = frame + 1
    /\ UNCHANGED <<energies, chunk_duration, min_region_size, max_region_size,
                   threshold, d_pc>>
    /\ UNCHANGED <<rvars, pvars>>

\* ReturnRegions of a sweep that emits the region still open at the end
ReturnRegionsFlush ==
    /\ d_pc = "sweep"
    /\ frame > Len(energies)
    /\ d_pc' = "done"
    /\ regions' = IF Truthy(region_start)
                      /\ LongEnough(region_start, elapsed_time, min_region_size)
                   THEN Append(regions, <<region_start, elapsed_time>>)
                   ELSE regions
    /\ UNCHANGED <<energies, chunk_duration, min_region_size, max_region_size,
                   threshold, elapsed_time, region_start, frame>>
    /\ UNCHANGED <<rvars, pvars>>

\* line 205
ReturnRegions ==
    /\ d_pc = "sweep"
    /\ frame > Len(energies)
    /\ d_pc' = "done"
    /\ UNCHANGED <<energies, chunk_duration, min_region_size, max_region_size,
                   threshold, elapsed_time, regions, region_start, frame>>
    /\ UNCHANGED <<rvars, pvars>>

(***************************************************************************)
(* SpeechRecognizer.__call__ (lines 91-112).                               *)
(***************************************************************************)
MaxRetries == 3
MaxLines == 2

\* The transcripts a record may carry: texts are sequences of characters.
Texts == { <<>>, <<"h", "i">>, <<"o">> }

\* One line of resp.content.decode().split('\n'):
\*   malformed    json.loads(line) raises (line 104)
\*   noresult     line['result'][0]['alternative'][0]['transcript'] raises, or
\*                the transcript is no string and line[:1].upper() raises
\*                (lines 105-106)
\*   transcript   the path holds the string text
Lines ==
    { [kind |-> k, text |-> <<>>] : k \in {"malformed", "noresult"} }
    \cup { [kind |-> "transcript", text |-> t] : t \in Texts }

\* split('\n') yields at least one line
Bodies == SeqsUpTo(Lines, MaxLines) \ { <<>> }

\* str.upper() of one character
Upper(ch) == CASE ch = "h" -> "H" [] ch = "i" -> "I" [] ch = "o" -> "O" [] OTHER -> ch

\* line 106: line[:1].upper() + line[1:]
Capitalize(text) ==
    IF text = <<>> THEN <<>> ELSE <<Upper(Head(text))>> \o Tail(text)

\* what __call__ returns or raises
ReturnNone == [kind |-> "None", text |-> <<>>]
ReturnStr(text) == [kind |-> "str", text |-> text]
Raise(exc) == [kind |-> exc, text |-> <<>>]
NoValue == [kind |-> "running", text |-> <<>>]

\* lines 103-109: does this line end the scan with a return (line 106)?  The
\* bare except of line 107 skips every line on which lines 104-106 raise.
LineReturns(line) == line.kind = "transcript"

\* lines 102-109: the scan of the lines of one response; ReturnNone stands
\* for "the for loop ended without returning".
RECURSIVE ScanLines(_)
ScanLines(body) ==
    IF body = <<>> THEN ReturnNone
    ELSE IF LineReturns(Head(body)) THEN ReturnStr(Capitalize(Head(body).text))
    ELSE ScanLines(Tail(body))

\* MoreAttempts with one pass less
MoreAttemptsOneLess(k, n) == k < n - 1

\* line 93: for i in range(self.retries)
MoreAttempts(k, n) == k < n

RecognizerIdle ==
    /\ retries = 0 /\ i = 0 /\ posts = <<>> /\ resp = <<>>
    /\ r_pc = "idle" /\ r_result = NoValue

InitRecognizer ==
    /\ retries \in 0..MaxRetries
    /\ i = 0
    /\ posts = <<>>
    /\ resp = <<>>
    /\ r_pc = "loop"
    /\ r_result = NoValue

\* lines 98-100: requests.post raises ConnectionError; continue
PostConnectionError ==
    /\ r_pc = "loop" /\ MoreAttempts(i, retries)
    /\ posts' = Append(posts, "ConnectionError")
    /\ i' = i + 1
    /\ UNCHANGED <<retries, resp, r_pc, r_result>>
    /\ UNCHANGED <<dvars, pvars>>

\* line 98: requests.post raises an exception that is no ConnectionError
\* (for instance ChunkedEncodingError); only KeyboardInterrupt is caught at
\* line 111, so it leaves __call__.
PostRaises ==
    /\ r_pc = "loop" /\ MoreAttempts(i, retries)
    /\ posts' = Append(posts, "RequestException")
    /\ r_pc' = "raised"
    /\ r_result' = Raise("RequestException")
    /\ UNCHANGED <<retries, i, resp>>
    /\ UNCHANGED <<dvars, pvars>>

\* line 102: resp.content.decode() raises UnicodeDecodeError, outside the
\* try of line 103
DecodeRaises ==
    /\ r_pc = "loop" /\ MoreAttempts(i, retries)
    /\ posts' = Append(posts, "undecodable response")
    /\ r_pc' = "raised"
    /\ r_result' = Raise("UnicodeDecodeError")
    /\ UNCHANGED <<retries, i, resp>>
    /\ UNCHANGED <<dvars, pvars>>

\* lines 111-112: KeyboardInterrupt inside the worker's call; return None
PostInterrupted ==
    /\ r_pc = "loop" /\ MoreAttempts(i, retries)
    /\ posts' = Append(posts, "KeyboardInterrupt")
    /\ r_pc' = "returned"
    /\ r_result' = ReturnNone
    /\ UNCHANGED <<retries, i, resp>>
    /\ UNCHANGED <<dvars, pvars>>

\* lines 98, 102-109: a response arrives and its lines are scanned; with no
\* return from the scan the for loop of line 93 goes on to its next pass
PostResponse ==
    /\ r_pc = "loop" /\ MoreAttempts(i, retries)
    /\ \E body \in Bodies :
          /\ posts' = Append(posts, "response")
          /\ resp' = body
          /\ IF ScanLines(body) # ReturnNone
             THEN /\ r_pc' = "returned"
                  /\ r_result' = ScanLines(body)
                  /\ UNCHANGED i
             ELSE /\ i' = i + 1
                  /\ UNCHANGED <<r_pc, r_result>>
    /\ UNCHANGED retries
    /\ UNCHANGED <<dvars, pvars>>

\* line 93 exhausted: the function ends without a return statement
LoopExhausted ==
    /\ r_pc = "loop" /\ ~MoreAttempts(i, retries)
    /\ r_pc' = "returned"
    /\ r_result' = ReturnNone
    /\ UNCHANGED <<retries, i, posts, resp>>
    /\ UNCHANGED <<dvars, pvars>>

(***************************************************************************)
(* generate_subtitles (lines 249-304) and main (lines 208-246).            *)
(***************************************************************************)
MaxRegions == 3
MaxConcurrency == 2

\* What find_speech_regions hands to generate_subtitles: n distinct regions,
\* in increasing order, none overlapping the next.
RegionList(n) == [k \in 1..n |-> <<2 * k, 2 * k + 1>>]

\* The results a pool worker can deliver for one item.  input is a history
\* field: the item the worker was given (the value itself does not say).
\* FLACConverter.__call__ (lines 67-81): the clip's bytes, None after a
\* KeyboardInterrupt inside the worker (lines 80-81), or the
\* CalledProcessError of check_output (line 77), which nothing catches.
ConverterResults(region) ==
    { [kind |-> k, text |-> <<>>, input |-> region] :
        k \in {"bytes", "None", "CalledProcessError"} }

\* SpeechRecognizer.__call__ (lines 91-112): every value SpecRecognizer can
\* end with (RecognizerResultsCover).
RecognizerResults ==
    {ReturnNone} \cup { ReturnStr(Capitalize(t)) : t \in Texts }
    \cup { Raise("RequestException"), Raise("UnicodeDecodeError") }

RecognizerOutcomes(clip) ==
    { [kind |-> r.kind, text |-> r.text, input |-> clip] : r \in RecognizerResults }

IsException(res) == res.kind \in {"CalledProcessError", "RequestException", "UnicodeDecodeError"}

\* Yieldable as imap_unordered would have it: any finished item
YieldableUnordered(collected, fin) == DOMAIN fin

\* pool.imap (lines 270, 278): the iterator yields the result of item
\* len(collected) + 1 once a worker has finished it, whatever else is finished.
Yieldable(collected, fin) == { k \in DOMAIN fin : k = Len(collected) + 1 }

\* WorkerFree of a pool that starts every item at once
WorkerAlwaysFree(run, size) == TRUE

\* multiprocessing.Pool(concurrency) (line 258): a worker process handles one
\* item at a time, so an item starts only while a worker is free.
WorkerFree(run, size) == Cardinality(run) < size

\* TruthyTranscript as "if t is not None": an empty string passes
TruthyTranscriptNotNone(t) == t.kind = "str"

\* line 289: the truth value of a transcript t ("if t")
TruthyTranscript(t) == t.kind = "str" /\ t.text # <<>>

\* line 289: [(r, t) for r, t in zip(regions, transcripts) if t]
RECURSIVE TimedSubtitles(_, _)
TimedSubtitles(rs, ts) ==
    IF rs = <<>> \/ ts = <<>> THEN <<>>
    ELSE (IF TruthyTranscript(Head(ts)) THEN << <<Head(rs), Head(ts)>> >> ELSE <<>>)
         \o TimedSubtitles(Tail(rs), Tail(ts))

\* line 243: except KeyboardInterrupt
CaughtByMain(exc) == exc = "KeyboardInterrupt"

\* line 282: except KeyboardInterrupt
CaughtByStage(exc) == exc = "KeyboardInterrupt"

\* HandlerExit without the raise: control falls out of the try statement
HandlerExitSwallows == "assemble"

\* line 287: raise, at the end of the handler of line 282
HandlerExit == "propagate"

NoFile == [state |-> "absent", subtitles |-> <<>>]
OldFile == [state |-> "old", subtitles |-> <<>>]
\* lines 290-300: formatter(timed_subtitles), encoded and written; the
\* formatter is external, the file is recorded by what was formatted
Written(timed) == [state |-> "written", subtitles |-> timed]

EmptyMap == [k \in {} |-> NoValue]

PipelineIdle ==
    /\ pc = "idle" /\ exit_code = None /\ raised = "none" /\ audio_file = FALSE
    /\ dest_file = NoFile /\ concurrency = 1 /\ pool = "none" /\ stage = "none"
    /\ queued = 0 /\ running = {} /\ finished = EmptyMap
    /\ extracted_regions = <<>> /\ transcripts = <<>>

InitPipeline ==
    /\ pc = "main"
    /\ exit_code = None
    /\ raised = "none"
    /\ audio_file = FALSE
    /\ dest_file \in {NoFile, OldFile}
    /\ concurrency \in 1..MaxConcurrency
    /\ pool = "none"
    /\ stage = "none"
    /\ queued = 0
    /\ running = {}
    /\ finished = EmptyMap
    /\ regions = <<>>
    /\ extracted_regions = <<>>
    /\ transcripts = <<>>

poolvars == <<queued, running, finished>>
filevars == <<audio_file, dest_file>>
listvars == <<regions, extracted_regions, transcripts>>

\* lines 212-220: --list-formats / --list-languages
MainList ==
    /\ pc = "main"
    /\ pc' = "exited" /\ exit_code' = 0
    /\ UNCHANGED <<raised, concurrency, pool, stage, poolvars, filevars, listvars>>
    /\ UNCHANGED <<dstate, rvars>>

\* lines 222-234: unsupported format or source language
MainRejects ==
    /\ pc = "main"
    /\ pc' = "exited" /\ exit_code' = 1
    /\ UNCHANGED <<raised, concurrency, pool, stage, poolvars, filevars, listvars>>
    /\ UNCHANGED <<dstate, rvars>>

\* lines 236-241: the call of generate_subtitles
MainCalls ==
    /\ pc = "main"
    /\ pc' = "extract_audio"
    /\ UNCHANGED <<exit_code, raised, concurrency, pool, stage, poolvars, filevars, listvars>>
    /\ UNCHANGED <<dstate, rvars>>

\* lines 254, 158-169: the temporary file is created (line 159) before the
\* checks; extract_audio returns
ExtractAudio ==
    /\ pc = "extract_audio"
    /\ audio_file' = TRUE
    /\ pc' = "find_regions"
    /\ UNCHANGED <<exit_code, raised, concurrency, pool, stage, poolvars, dest_file, listvars>>
    /\ UNCHANGED <<dstate, rvars>>

\* lines 160-168: missing source, missing ffmpeg or a failing ffmpeg
ExtractAudioRaises ==
    /\ pc = "extract_audio"
    /\ audio_file' = TRUE
    /\ raised' = "Exception"
    /\ pc' = "propagate"
    /\ UNCHANGED <<exit_code, concurrency, pool, stage, poolvars, dest_file, listvars>>
    /\ UNCHANGED <<dstate, rvars>>

\* line 256
FindSpeechRegions ==
    /\ pc = "find_regions"
    /\ \E n \in 0..MaxRegions : regions' = RegionList(n)
    /\ pc' = "create_pool"
    /\ UNCHANGED <<exit_code, raised, concurrency, pool, stage, poolvars, filevars,
                   extracted_regions, transcripts>>
    /\ UNCHANGED <<dstate, rvars>>

\* line 256: find_speech_regions raises (the IndexError of percentile on an
\* empty stream, see ComputeThreshold)
FindSpeechRegionsRaises ==
    /\ pc = "find_regions"
    /\ raised' = "IndexError"
    /\ pc' = "propagate"
    /\ UNCHANGED <<exit_code, concurrency, pool, stage, poolvars, filevars, listvars>>
    /\ UNCHANGED <<dstate, rvars>>

\* lines 258-265: the pool is created; with regions the try is entered
CreatePool ==
    /\ pc = "create_pool"
    /\ pool' = "running"
    /\ transcripts' = <<>>
    /\ extracted_regions' = <<>>
    /\ pc' = IF regions # <<>> THEN "try" ELSE "assemble"
    /\ UNCHANGED <<exit_code, raised, concurrency, stage, poolvars, filevars, regions>>
    /\ UNCHANGED <<dstate, rvars>>

\* lines 266-270: the progress bar is made and the first imap starts
StartExtraction ==
    /\ pc = "try"
    /\ pc' = "extracting"
    /\ stage' = "extract"
    /\ UNCHANGED <<exit_code, raised, concurrency, pool, poolvars, filevars, listvars>>
    /\ UNCHANGED <<dstate, rvars>>

\* KeyboardInterrupt inside the try before pbar is bound (lines 266-268):
\* the handler's pbar.finish() (line 283) raises UnboundLocalError, which
\* leaves generate_subtitles with the pool neither terminated nor joined
InterruptBeforeProgressBar ==
    /\ pc = "try"
    /\ raised' = "UnboundLocalError"
    /\ pc' = "propagate"
    /\ UNCHANGED <<exit_code, concurrency, pool, stage, poolvars, filevars, listvars>>
    /\ UNCHANGED <<dstate, rvars>>

\* a free worker takes the next item of the running imap
WorkerTakes ==
    /\ pool = "running"
    /\ pc \in {"extracting", "recognizing", "except"}
    /\ stage \in {"extract", "recognize"}
    /\ queued < Len(regions)
    /\ WorkerFree(running, concurrency)
    /\ running' = running \cup {queued + 1}
    /\ queued' = queued + 1
    /\ UNCHANGED <<pc, exit_code, raised, concurrency, pool, stage, finished,
                   filevars, listvars>>
    /\ UNCHANGED <<dstate, rvars>>

\* a worker finishes converter(regions[k]) (lines 67-81)
WorkerConverts ==
    /\ pool = "running"
    /\ pc \in {"extracting", "except"}
    /\ stage = "extract"
    /\ \E k \in running : \E res \in ConverterResults(regions[k]) :
          /\ finished' = (k :> res) @@ finished
          /\ running' = running \ {k}
    /\ UNCHANGED <<pc, exit_code, raised, concurrency, pool, stage, queued,
                   filevars, listvars>>
    /\ UNCHANGED <<dstate, rvars>>

\* a worker finishes recognizer(extracted_regions[k]) (lines 91-112)
WorkerRecognizes ==
    /\ pool = "running"
    /\ pc \in {"recognizing", "except"}
    /\ stage = "recognize"
    /\ \E k \in running : \E res \in RecognizerOutcomes(extracted_regions[k]) :
          /\ finished' = (k :> res) @@ finished
          /\ running' = running \ {k}
    /\ UNCHANGED <<pc, exit_code, raised, concurrency, pool, stage, queued,
                   filevars, listvars>>
    /\ UNCHANGED <<dstate, rvars>>

\* lines 270-272: the imap iterator yields the next result, or raises the
\* exception the worker's call ended with
CollectExtracted ==
    /\ pc = "extracting"
    /\ \E k \in Yieldable(extracted_regions, finished) :
          /\ finished' = [j \in DOMAIN finished \ {k} |-> finished[j]]
          /\ IF IsException(finished[k])
             THEN /\ raised' = finished[k].kind
                  /\ pc' = IF CaughtByStage(finished[k].kind) THEN "except" ELSE "propagate"
                  /\ UNCHANGED extracted_regions
             ELSE /\ extracted_regions' = Append(extracted_regions, finished[k])
                  /\ UNCHANGED <<pc, raised>>
    /\ UNCHANGED <<exit_code, concurrency, pool, stage, queued, running, filevars,
                   regions, transcripts>>
    /\ UNCHANGED <<dstate, rvars>>

\* lines 273-278: the first imap is exhausted; the second one starts
StartRecognition ==
    /\ pc = "extracting"
    /\ Len(extracted_regions) = Len(regions)
    /\ pc' = "recognizing"
    /\ stage' = "recognize"
    /\ queued' = 0
    /\ running' = {}
    /\ finished' = EmptyMap
    /\ UNCHANGED <<exit_code, raised, concurrency, pool, filevars, listvars>>
    /\ UNCHANGED <<dstate, rvars>>

\* lines 278-280
CollectTranscript ==
    /\ pc = "recognizing"
    /\ \E k \in Yieldable(transcripts, finished) :
          /\ finished' = [j \in DOMAIN finished \ {k} |-> finished[j]]
          /\ IF IsException(finished[k])
             THEN /\ raised' = finished[k].kind
                  /\ pc' = IF CaughtByStage(finished[k].kind) THEN "except" ELSE "propagate"
                  /\ UNCHANGED transcripts
             ELSE /\ transcripts' = Append(transcripts, finished[k])
                  /\ UNCHANGED <<pc, raised>>
    /\ UNCHANGED <<exit_code, concurrency, pool, stage, queued, running, filevars,
                   regions, extracted_regions>>
    /\ UNCHANGED <<dstate, rvars>>

\* line 281: the second imap is exhausted
FinishRecognition ==
    /\ pc = "recognizing"
    /\ Len(transcripts) = Len(regions)
    /\ pc' = "assemble"
    /\ UNCHANGED <<exit_code, raised, concurrency, pool, stage, poolvars, filevars, listvars>>
    /\ UNCHANGED <<dstate, rvars>>

\* KeyboardInterrupt is raised in the orchestrating process inside the try of
\* lines 265-281; control goes to the handler of line 282
Interrupt ==
    /\ pc \in {"extracting", "recognizing"}
    /\ raised' = "KeyboardInterrupt"
    /\ pc' = IF CaughtByStage("KeyboardInterrupt") THEN "except" ELSE "propagate"
    /\ UNCHANGED <<exit_code, concurrency, pool, stage, poolvars, filevars, listvars>>
    /\ UNCHANGED <<dstate, rvars>>

\* PoolTerminate of a handler that does not call pool.terminate()
PoolTerminateSkipped ==
    /\ pc = "except"
    /\ pc' = "join"
    /\ UNCHANGED <<exit_code, raised, concurrency, pool, stage, poolvars, filevars, listvars>>
    /\ UNCHANGED <<dstate, rvars>>

\* lines 283-284: pool.terminate() stops the workers and drops their work
PoolTerminate ==
    /\ pc = "except"
    /\ pool' = "terminated"
    /\ running' = {}
    /\ pc' = "join"
    /\ UNCHANGED <<exit_code, raised, concurrency, stage, queued, finished, filevars, listvars>>
    /\ UNCHANGED <<dstate, rvars>>

\* line 285
PoolJoin ==
    /\ pc = "join"
    /\ pool' = "joined"
    /\ pc' = "reraise"
    /\ UNCHANGED <<exit_code, raised, concurrency, stage, poolvars, filevars, listvars>>
    /\ UNCHANGED <<dstate, rvars>>

\* lines 286-287
Reraise ==
    /\ pc = "reraise"
    /\ pc' = HandlerExit
    /\ UNCHANGED <<exit_code, raised, concurrency, pool, stage, poolvars, filevars, listvars>>
    /\ UNCHANGED <<dstate, rvars>>

\* lines 289-300
WriteSubtitles ==
    /\ pc = "assemble"
    /\ dest_file' = Written(TimedSubtitles(regions, transcripts))
    /\ pc' = "remove"
    /\ UNCHANGED <<exit_code, raised, concurrency, pool, stage, poolvars, audio_file, listvars>>
    /\ UNCHANGED <<dstate, rvars>>

\* line 302
RemoveAudio ==
    /\ pc = "remove"
    /\ audio_file' = FALSE
    /\ pc' = "return"
    /\ UNCHANGED <<exit_code, raised, concurrency, pool, stage, poolvars, dest_file, listvars>>
    /\ UNCHANGED <<dstate, rvars>>

\* lines 304, 242, 246
MainReturns ==
    /\ pc = "return"
    /\ pc' = "exited" /\ exit_code' = 0
    /\ UNCHANGED <<raised, concurrency, pool, stage, poolvars, filevars, listvars>>
    /\ UNCHANGED <<dstate, rvars>>

\* lines 243-244: main catches the cancellation and returns 1
MainCatches ==
    /\ pc = "propagate"
    /\ CaughtByMain(raised)
    /\ pc' = "exited" /\ exit_code' = 1
    /\ UNCHANGED <<raised, concurrency, pool, stage, poolvars, filevars, listvars>>
    /\ UNCHANGED <<dstate, rvars>>

\* any other exception leaves main (line 308): the interpreter prints the
\* traceback and exits with status 1
MainCrashes ==
    /\ pc = "propagate"
    /\ ~CaughtByMain(raised)
    /\ pc' = "crashed" /\ exit_code' = 1
    /\ UNCHANGED <<raised, concurrency, pool, stage, poolvars, filevars, listvars>>
    /\ UNCHANGED <<dstate, rvars>>

(***************************************************************************)
(* The specifications.                                                     *)
(***************************************************************************)
InitDetectSpec == InitDetect /\ RecognizerIdle /\ PipelineIdle

NextDetect == ComputeThreshold \/ SweepFrame \/ ReturnRegions

SpecDetect == InitDetectSpec /\ [][NextDetect]_vars

InitRecognizerSpec ==
    InitRecognizer /\ DetectIdle /\ regions = <<>> /\ PipelineIdle

NextRecognizer ==
    \/ PostConnectionError \/ PostRaises \/ DecodeRaises \/ PostInterrupted
    \/ PostResponse \/ LoopExhausted

SpecRecognizer == InitRecognizerSpec /\ [][NextRecognizer]_vars

Init == InitPipeline /\ DetectIdle /\ RecognizerIdle

Next ==
    \/ MainList \/ MainRejects \/ MainCalls
    \/ ExtractAudio \/ ExtractAudioRaises
    \/ FindSpeechRegions \/ FindSpeechRegionsRaises
    \/ CreatePool \/ StartExtraction \/ InterruptBeforeProgressBar
    \/ WorkerTakes \/ WorkerConverts \/ WorkerRecognizes
    \/ CollectExtracted \/ StartRecognition
    \/ CollectTranscript \/ FinishRecognition
    \/ Interrupt \/ PoolTerminate \/ PoolJoin \/ Reraise
    \/ WriteSubtitles \/ RemoveAudio \/ MainReturns
    \/ MainCatches \/ MainCrashes

Spec == Init /\ [][Next]_vars

(***************************************************************************)
(* Properties of find_speech_regions, checked under SpecDetect.            *)
(***************************************************************************)
NFrames == Len(energies)

\* the time at which frame k starts (frames are numbered from 1)
TimeOf(k) == (k - 1) * chunk_duration

\* "the frame is not silent": energy > threshold
NonSilent(k) == PercentDen * energies[k] > threshold

\* frames a..b are a contiguous non-silent run that no non-silent frame
\* borders
MaximalRun(a, b) ==
    /\ 1 <= a /\ a <= b /\ b <= NFrames
    /\ \A k \in a..b : NonSilent(k)
    /\ (a = 1 \/ ~NonSilent(a - 1))
    /\ (b = NFrames \/ ~NonSilent(b + 1))

\* the non-silent frames are exactly a..b, and a silent frame follows
OnlyRun(a, b) ==
    /\ MaximalRun(a, b)
    /\ b < NFrames
    /\ \A k \in 1..NFrames : NonSilent(k) => (a <= k /\ k <= b)

RunDuration(a, b) == (b - a + 1) * chunk_duration

Emitted == { regions[j] : j \in 1..Len(regions) }

\* the emitted regions that overlap the run of frames a..b
RegionsOver(a, b) ==
    { j \in 1..Len(regions) :
        regions[j][1] < TimeOf(b + 1) /\ regions[j][2] > TimeOf(a) }

\* C7: when the non-silent frames are exactly one contiguous run [t0, t1),
\* t0 >= 0, followed by a silent frame, and min_region_size <= t1 - t0 <
\* max_region_size, find_speech_regions returns exactly [(t0, t1)].
C7_SingleRunSingleRegion ==
    d_pc = "done" =>
        \A a \in 1..NFrames : \A b \in a..NFrames :
            ( /\ OnlyRun(a, b)
              /\ RunDuration(a, b) >= min_region_size
              /\ RunDuration(a, b) < max_region_size )
            => regions = << <<TimeOf(a), TimeOf(b + 1)>> >>

\* The statement of C7 for runs that start after time 0 (t0 > 0).
SingleRunAfterZero ==
    d_pc = "done" =>
        \A a \in 2..NFrames : \A b \in a..NFrames :
            ( /\ OnlyRun(a, b)
              /\ RunDuration(a, b) >= min_region_size
              /\ RunDuration(a, b) < max_region_size )
            => regions = << <<TimeOf(a), TimeOf(b + 1)>> >>

\* C8: a contiguous non-silent run shorter than min_region_size that a
\* silent frame ends is discarded: no emitted region starts inside the run,
\* whatever frames follow.
C8_ShortRunDiscarded ==
    d_pc = "done" =>
        \A a \in 1..NFrames : \A b \in a..NFrames :
            ( /\ MaximalRun(a, b)
              /\ b < NFrames
              /\ RunDuration(a, b) < min_region_size )
            => \A r \in Emitted : ~(TimeOf(a) <= r[1] /\ r[1] < TimeOf(b + 1))

\* C9 as stated: every emitted region lasts at most max_region_size, and a
\* contiguous non-silent run longer than max_region_size is split into more
\* than one emitted region.
C9_AtMostMaxAndSplit ==
    d_pc = "done" =>
        /\ \A r \in Emitted : r[2] - r[1] <= max_region_size
        /\ \A a \in 1..NFrames : \A b \in a..NFrames :
              (MaximalRun(a, b) /\ RunDuration(a, b) > max_region_size)
              => Cardinality(RegionsOver(a, b)) > 1

\* C9 amended: every emitted region lasts less than max_region_size plus one
\* chunk_duration (the region is closed by the first frame at which its
\* duration has reached max_region_size), and at most max_region_size when
\* chunk_duration divides max_region_size.
C9_LessThanMaxPlusFrame ==
    \A r \in Emitted :
        /\ r[2] - r[1] < max_region_size + chunk_duration
        /\ (max_region_size % chunk_duration = 0 => r[2] - r[1] <= max_region_size)

\* a run longer than max_region_size was swept, and a region longer than
\* max_region_size was emitted
C9_Witness ==
    /\ d_pc = "done"
    /\ \E a \in 1..NFrames : \E b \in a..NFrames :
          MaximalRun(a, b) /\ RunDuration(a, b) > max_region_size
    /\ \E r \in Emitted : r[2] - r[1] > max_region_size

\* C10: for an empty stream (no frames, an empty energy list)
\* find_speech_regions returns the empty region list and does not fail.
C10_EmptyStreamEmptyList ==
    energies = <<>> =>
        /\ d_pc # "raised"
        /\ (d_pc = "done" => regions = <<>>)

(***************************************************************************)
(* Properties of SpeechRecognizer.__call__, checked under SpecRecognizer.  *)
(***************************************************************************)
\* every value the call can end with is one the pipeline's workers deliver
RecognizerResultsCover ==
    r_pc \in {"returned", "raised"} => r_result \in RecognizerResults

AllConnectionErrors == \A k \in 1..Len(posts) : posts[k] = "ConnectionError"

\* the endpoint failed at connection level on the first n - 1 requests and
\* answered the n-th
FailsThenResponds(n) ==
    /\ Len(posts) = n
    /\ \A k \in 1..(n - 1) : posts[k] = "ConnectionError"
    /\ posts[n] = "response"

\* the response carries a valid transcript: its first record with a
\* transcript has a non-empty one (a record with an empty transcript ahead
\* of it is the case of C6)
CarriesTranscript(body) ==
    \E k \in 1..Len(body) :
        /\ body[k].kind = "transcript" /\ body[k].text # <<>>
        /\ \A j \in 1..(k - 1) : body[j].kind # "transcript"

\* the first record of the body with a present, non-empty transcript,
\* capitalized; empty/absent when there is none
RECURSIVE ExpectedTranscript(_)
ExpectedTranscript(body) ==
    IF body = <<>> THEN ReturnNone
    ELSE IF Head(body).kind = "transcript" /\ Head(body).text # <<>>
         THEN ReturnStr(<<Upper(Head(Head(body).text))>> \o Tail(Head(body).text))
         ELSE ExpectedTranscript(Tail(body))

EmptyOrAbsent(v) == v.kind = "None" \/ (v.kind = "str" /\ v.text = <<>>)

SameTranscript(x, y) == (EmptyOrAbsent(x) /\ EmptyOrAbsent(y)) \/ x = y

\* C5: when the endpoint fails at connection level on the first N - 1
\* requests and then returns a response carrying a valid transcript, the
\* recognizer returns that transcript if max_retries >= N; if max_retries <
\* N (all max_retries requests failed) it returns an absent transcript, and
\* it gives up no earlier than after max_retries requests.
C5_RetryThenTranscript ==
    r_pc \in {"returned", "raised"} =>
        /\ \A n \in 1..Len(posts) :
              (FailsThenResponds(n) /\ CarriesTranscript(resp))
              => /\ retries >= n
                 /\ r_pc = "returned"
                 /\ r_result = ExpectedTranscript(resp)
        /\ AllConnectionErrors
              => /\ Len(posts) = retries
                 /\ r_pc = "returned"
                 /\ r_result = ReturnNone

\* two connection failures, then a response with a transcript, returned
C5_Witness ==
    /\ r_pc = "returned"
    /\ FailsThenResponds(3)
    /\ CarriesTranscript(resp)
    /\ r_result.kind = "str"

\* C6: from a response body of newline-delimited records the recognizer
\* returns the transcript of the first record whose transcript is present
\* and non-empty, first character capitalized; malformed records, records
\* without a transcript and records with an empty transcript are skipped;
\* when no record qualifies the result is empty/absent.
C6_FirstNonEmptyTranscript ==
    (r_pc = "returned" /\ posts # <<>> /\ posts[Len(posts)] = "response")
    => SameTranscript(r_result, ExpectedTranscript(resp))

(***************************************************************************)
(* Properties of generate_subtitles and main, checked under Spec.          *)
(***************************************************************************)
\* C1: whatever the order in which the workers finish, the collected
\* sequences are index-aligned: the k-th clip collected was extracted from
\* regions[k], the k-th transcript collected is the recognizer's result for
\* the k-th clip, and when both stages are through there is one transcript
\* per region.
C1_TranscriptsAligned ==
    /\ Len(extracted_regions) <= Len(regions)
    /\ Len(transcripts) <= Len(extracted_regions)
    /\ \A k \in 1..Len(extracted_regions) : extracted_regions[k].input = regions[k]
    /\ \A k \in 1..Len(transcripts) : transcripts[k].input = extracted_regions[k]
    /\ pc \in {"assemble", "remove", "return"} => Len(transcripts) = Len(regions)

\* item 3 of the recognition stage finished while item 2 is still running,
\* and transcript 1 is collected
C1_Witness ==
    /\ pc = "recognizing"
    /\ Len(transcripts) = 1
    /\ 3 \in DOMAIN finished
    /\ 2 \in running

\* C2: after a KeyboardInterrupt raised in the orchestrating process during
\* the extraction or the recognition stage, with any number of items
\* collected, the output file is never written (the destination keeps what
\* it held), the cancellation reaches main and main returns 1.
C2_CancellationWritesNothing ==
    raised = "KeyboardInterrupt" =>
        /\ dest_file \in {NoFile, OldFile}
        /\ pc \in {"except", "join", "reraise", "propagate", "exited"}
        /\ (pc = "exited" => exit_code = 1)

\* cancelled in the recognition stage with some, not all, transcripts
\* collected; main has returned 1 and the old file is still there
C2_Witness ==
    /\ raised = "KeyboardInterrupt"
    /\ pc = "exited" /\ exit_code = 1
    /\ stage = "recognize"
    /\ Len(transcripts) >= 1 /\ Len(transcripts) < Len(regions)
    /\ dest_file = OldFile

\* C3: an extraction failure inside a worker (the conversion tool exits
\* non-zero for one region) does not terminate the extraction stage or the
\* run: no CalledProcessError ever propagates in the orchestrating process.
C3_ExtractionFailureContained ==
    raised # "CalledProcessError"

\* C4: a failure of a recognition call that is no connection failure gives
\* an absent transcript for that region and never aborts the pipeline: no
\* such exception ever propagates in the orchestrating process.
C4_RecognitionFailureContained ==
    raised \notin {"RequestException", "UnicodeDecodeError"}

(***************************************************************************)
(* Further properties of find_speech_regions, checked under SpecDetect.    *)
(***************************************************************************)
\* C11: in the region list every region has 0 <= start < end, the regions
\* are in non-decreasing order of start, and no region overlaps the next
\* (each region's end <= the next region's start).
C11_RegionsOrderedDisjoint ==
    /\ \A j \in 1..Len(regions) :
          0 <= regions[j][1] /\ regions[j][1] < regions[j][2]
    /\ \A j \in 1..(Len(regions) - 1) :
          /\ regions[j][1] <= regions[j + 1][1]
          /\ regions[j][2] <= regions[j + 1][1]

\* the sweep has returned at least two regions
C11_Witness == d_pc = "done" /\ Len(regions) >= 2

(***************************************************************************)
(* Further properties of generate_subtitles, checked under Spec.           *)
(***************************************************************************)
\* the indices whose transcript is present and non-empty
Kept ==
    { k \in 1..Len(regions) :
        /\ k <= Len(transcripts)
        /\ transcripts[k].kind = "str"
        /\ transcripts[k].text # <<>> }

\* C12: the sequence handed to the formatter is exactly the pairs
\* (regions[k], transcripts[k]) for the k whose transcript is present and
\* non-empty, in increasing k: its j-th pair is the pair of the j-th such k.
C12_FormatterGetsKeptPairs ==
    dest_file.state = "written" =>
        /\ Len(dest_file.subtitles) = Cardinality(Kept)
        /\ \A j \in 1..Len(dest_file.subtitles) :
              \E k \in Kept :
                  /\ Cardinality({ m \in Kept : m < k }) = j - 1
                  /\ dest_file.subtitles[j] = <<regions[k], transcripts[k]>>

\* three regions were formatted: an absent transcript, an empty one, and a
\* kept one after them
C12_Witness ==
    /\ dest_file.state = "written"
    /\ Len(regions) = 3
    /\ transcripts[1].kind = "None"
    /\ transcripts[2].kind = "str" /\ transcripts[2].text = <<>>
    /\ Kept = {3}

(***************************************************************************)
(* Properties of percentile, checked under SpecDetect on the energies of   *)
(* Init, right after ComputeThreshold has applied it.                      *)
(***************************************************************************)
\* the j-th smallest element of arr, j counted from 0
OrderStat(arr, j) ==
    CHOOSE v \in { arr[m] : m \in 1..Len(arr) } :
        /\ Cardinality({ m \in 1..Len(arr) : arr[m] < v }) <= j
        /\ j < Cardinality({ m \in 1..Len(arr) : arr[m] <= v })

\* the standard linear-interpolation percentile at rank k = (n - 1) / 5,
\* multiplied by PercentDen
StandardPercentile(arr) ==
    LET knum == Len(arr) - 1
        lo   == knum \div PercentDen
        hi   == lo + 1
    IN  IF knum % PercentDen = 0
        THEN PercentDen * OrderStat(arr, lo)
        ELSE OrderStat(arr, lo) * (hi * PercentDen - knum)
             + OrderStat(arr, hi) * (knum - lo * PercentDen)

\* arr with the elements at j and j + 1 exchanged
SwapAt(arr, j) == [arr EXCEPT ![j] = arr[j + 1], ![j + 1] = arr[j]]

\* C13: for every list of n >= 1 energies, percentile(energies, 0.2) is the
\* standard linear-interpolation percentile (s[k] for integral k = (n-1)*0.2,
\* else s[floor k]*(ceil k - k) + s[ceil k]*(k - floor k), s the sorted
\* list); it is the same for every reordering of the list (every exchange
\* of two neighbours) and does not decrease when an element is increased.
C13_StandardPercentile ==
    (d_pc = "sweep" /\ frame = 1 /\ energies # <<>>) =>
        /\ threshold = StandardPercentile(energies)
        /\ \A j \in 1..(Len(energies) - 1) :
              Percentile(SwapAt(energies, j)) = threshold
        /\ \A j \in 1..Len(energies) :
              Percentile([energies EXCEPT ![j] = @ + 1]) >= threshold

\* percentile was applied to an unsorted list of four energies and gave an
\* interpolated value
C13_Witness ==
    /\ d_pc = "sweep" /\ frame = 1
    /\ Len(energies) = 4
    /\ energies[1] > energies[2]
    /\ threshold % PercentDen # 0

(***************************************************************************)
(* Behaviour of the recognition stage and of the recognizer's requests.    *)
(***************************************************************************)
\* C14: for a region whose clip extraction produced no output (an absent
\* clip) the recognition stage makes no recognition call: no worker is ever
\* running the recognizer on an item whose clip is None.  (Checked under
\* Spec; the call posts the clip at line 98 whatever it is.)
C14_NoCallForAbsentClip ==
    stage = "recognize" =>
        \A k \in running : extracted_regions[k].kind # "None"

\* C15: within one recognizer call a further request is made only after a
\* connection-level failure of the one before: every request but the last
\* ended with ConnectionError.  (Checked under SpecRecognizer.)
C15_RequestOnlyAfterConnectionError ==
    \A k \in 1..(Len(posts) - 1) : posts[k] = "ConnectionError"

\* C16: once a region has been opened at some elapsed time, the first frame
\* at time 0 included, its start is left unchanged by every later frame
\* until the region is closed.  (Checked under SpecDetect.)
C16_OpenStartUnchanged ==
    [][ (region_start # None /\ region_start' # None)
        => region_start' = region_start ]_vars

\* The statement of C16 for regions opened after time 0.
OpenStartUnchangedAfterZero ==
    [][ (Truthy(region_start) /\ region_start' # None)
        => region_start' = region_start ]_vars

(***************************************************************************)
(* The worker pool, checked under Spec.                                    *)
(***************************************************************************)
\* C17: at every instant, in both stages, the number of worker invocations
\* in flight (clip extractions plus recognitions) is at most the configured
\* concurrency.
C17_InFlightAtMostConcurrency ==
    Cardinality(running) <= concurrency

\* both workers of a pool of two are busy while items are still waiting
C17_Witness ==
    /\ concurrency = 2
    /\ Cardinality(running) = 2
    /\ queued < Len(regions)

\* C18: when a KeyboardInterrupt is raised during either stage, the pool is
\* terminated and joined, with no worker left running, before the
\* cancellation leaves generate_subtitles, and once the handler has
\* terminated the pool no further item is given to a worker.
C18_PoolReleasedBeforePropagation ==
    [][ /\ (raised' = "KeyboardInterrupt" /\ pc' \in {"propagate", "exited"})
           => (pool' = "joined" /\ running' = {})
        /\ (pool \in {"terminated", "joined"})
           => (queued' = queued /\ running' = {}) ]_vars

\* cancelled in the extraction stage while items were in flight and others
\* not yet given to a worker; the cancellation is leaving generate_subtitles
C18_Witness ==
    /\ raised = "KeyboardInterrupt"
    /\ pc = "propagate"
    /\ pool = "joined"
    /\ stage = "extract"
    /\ queued > Len(extracted_regions) + Cardinality(DOMAIN finished)
    /\ queued < Len(regions)

\* C20: whenever generate_subtitles has ended after extract_audio created
\* the temporary PCM file, by a normal return, by cancellation or by a
\* propagated failure, that file has been removed.  The pool exists only
\* after extract_audio has returned the file.
C20_AudioFileRemoved ==
    (pool # "none" /\ pc \in {"return", "propagate", "exited", "crashed"})
        => audio_file = FALSE

(***************************************************************************)
(* The end of the stream, checked under SpecDetect.                        *)
(***************************************************************************)
\* C19: a region still open when the last frame has been processed is never
\* emitted: every emitted region ends at the time of a frame of the stream
\* that has been processed (the frame that closed it), and the part of a run
\* that is open at the end contributes no region, however long it is.
C19_OpenRegionNotEmitted ==
    /\ \A r \in Emitted :
          \E k \in 1..NFrames : k < frame /\ r[2] = TimeOf(k)
    /\ (d_pc = "done" /\ region_start # None)
          => \A r \in Emitted : r[1] # region_start

\* the sweep ended inside a non-silent run whose open part is at least
\* min_region_size long
C19_Witness ==
    /\ d_pc = "done"
    /\ Truthy(region_start)
    /\ NonSilent(NFrames)
    /\ elapsed_time - region_start >= min_region_size

=============================================================================
